---- MODULE Spec2Model ----
(***************************************************************************)
(* Model of starfish/spots/_detector/detect.py: the bounding-box geometry  *)
(* of measure_spot_intensity, the per-slice fill loop of                   *)
(* measure_spot_intensities, the row-by-row fill of                        *)
(* concatenate_spot_attributes_to_intensities and the control flow of      *)
(* detect_spots.                                                           *)
(*                                                                         *)
(* Pixel coordinates and radii are floats in the program.  They are        *)
(* modelled in fixed point: an integer n stands for the float n / Denom.   *)
(* Integer pixel indices (box bounds, extents, channel and round indices)  *)
(* are plain integers.                                                     *)
(***************************************************************************)
EXTENDS Integers, Sequences, FiniteSets, TLC

\* ---------------------------------------------------------------- bounds
\* fixed-point resolution of the modelled floats (units per pixel)
Denom == 2
\* largest spatial extent of one axis of the volume, in pixels
MaxExtent == 3
\* largest spot-centre coordinate, in 1/Denom pixels
MaxCoord == 7
\* largest spot radius, in 1/Denom pixels
MaxRadius == 4
\* largest channel extent and largest round extent of the volume
MaxCh == 2
MaxRound == 2
\* largest number of spot rows handled in one call
MaxSpots == 2
\* largest number of (table, indices) pairs handed to the concatenation
MaxPairs == 2

VARIABLES entry, pc, data_stack, reference_image, reference_image_from_max_projection,
          radius_is_gyration, spots, blob_intensities, spot_attributes_list,
          intensity_table, writes, slice_idx, pair_idx, row_idx, i, error, invoked

vars == <<entry, pc, data_stack, reference_image, reference_image_from_max_projection,
          radius_is_gyration, spots, blob_intensities, spot_attributes_list,
          intensity_table, writes, slice_idx, pair_idx, row_idx, i, error, invoked>>

\* ------------------------------------------------------- float conversions
\* ndarray.astype(int) on a float: truncation toward zero, result in pixels
AsTypeInt(v) == IF v >= 0 THEN v \div Denom ELSE -((-v) \div Denom)

\* np.ceil on a float, result in pixels
NpCeil(v) == -((-v) \div Denom)

\* an integer number of pixels as a float
ToFloat(n) == n * Denom

\* np.clip with the lower bound left out
ClipLowerOff(v, lo) == v

\* np.clip(v, lo, None) and np.clip(v, None, hi)
ClipLower(v, lo) == IF v < lo THEN lo ELSE v
ClipUpper(v, hi) == IF v > hi THEN hi ELSE v

\* ------------------------------------------------- measure_spot_intensity
BoxColumns == {"z_min", "z_max", "y_min", "y_max", "x_min", "x_max"}

\* the two rounding policies taken the wrong way round
BoxRadiusSwapped(r, gyration) ==
    IF gyration THEN AsTypeInt(r) ELSE NpCeil(r) + 1

\* the integer radius of the box, lines 53-56
BoxRadius(r, gyration) ==
    IF gyration THEN NpCeil(r) + 1 ELSE AsTypeInt(r)

\* the minimum taken a full radius below the centre
ColumnMinUncentred(centre, radius) == ClipLower(centre - ToFloat(radius), 0)

\* the float columns v_min and v_max written to spots.data, lines 59-60
ColumnMin(centre, radius) == ClipLower(centre - ToFloat(radius - 1), 0)
ColumnMax(centre, radius, max_size) == ClipUpper(centre + ToFloat(radius), ToFloat(max_size))

\* one row of spots.data after the loop of lines 57-60: the six box columns
\* are assigned (created, or overwritten when already present)
WithBoxColumns(row, shape, gyration) ==
    LET radius == BoxRadius(row.radius, gyration) IN
    [z_min |-> ColumnMin(row.z, radius), z_max |-> ColumnMax(row.z, radius, shape.z),
     y_min |-> ColumnMin(row.y, radius), y_max |-> ColumnMax(row.y, radius, shape.y),
     x_min |-> ColumnMin(row.x, radius), x_max |-> ColumnMax(row.x, radius, shape.x)] @@ row

\* the integer box of one row that fn slices the image with, line 61 and 46-50
BoundingBox(row) ==
    [z_min |-> AsTypeInt(row.z_min), z_max |-> AsTypeInt(row.z_max),
     y_min |-> AsTypeInt(row.y_min), y_max |-> AsTypeInt(row.y_max),
     x_min |-> AsTypeInt(row.x_min), x_max |-> AsTypeInt(row.x_max)]

\* spots.data after measure_spot_intensity has run on it
SpotsAfterMeasure(table, shape, gyration) ==
    [n \in 1..Len(table) |-> WithBoxColumns(table[n], shape, gyration)]

\* the boxes measured, one per row in row order
MeasuredBoxes(table, shape, gyration) ==
    [n \in 1..Len(table) |-> BoundingBox(WithBoxColumns(table[n], shape, gyration))]

\* ----------------------------------------------------------------- inputs
Coords == 0..MaxCoord
Radii == 0..MaxRadius
Extents == 1..MaxExtent

SpotRows == [z : Coords, y : Coords, x : Coords, radius : Radii]

Stack(ch, round, z, y, x, aligned) ==
    [shape |-> [ch |-> ch, round |-> round, z |-> z, y |-> y, x |-> x],
     tiles_aligned |-> aligned]

NoTable == <<>>
NoTensor == [n_spots |-> 0, n_ch |-> 0, n_round |-> 0, data |-> <<>>, features |-> <<>>]

\* ------------------------------------ measure_spot_intensity called alone
InitBox ==
    /\ entry = "measure_spot_intensity"
    /\ pc = "measure_spot_intensity"
    /\ \E z \in Extents, y \in Extents, x \in Extents :
           data_stack = Stack(1, 1, z, y, x, TRUE)
    /\ reference_image = "none"
    /\ reference_image_from_max_projection = FALSE
    /\ radius_is_gyration \in BOOLEAN
    /\ \E row \in SpotRows : spots = <<row>>
    /\ blob_intensities = <<>>
    /\ spot_attributes_list = <<>>
    /\ intensity_table = NoTensor
    /\ writes = <<>>
    /\ slice_idx = 0
    /\ pair_idx = 0
    /\ row_idx = 0
    /\ i = 0
    /\ error = "none"
    /\ invoked = {}

MeasureSpotIntensity ==
    /\ pc = "measure_spot_intensity"
    /\ spots' = SpotsAfterMeasure(spots, data_stack.shape, radius_is_gyration)
    /\ blob_intensities' = MeasuredBoxes(spots, data_stack.shape, radius_is_gyration)
    /\ invoked' = invoked \cup {"measurement_function"}
    /\ pc' = "measured"
    /\ UNCHANGED <<entry, data_stack, reference_image,
                   reference_image_from_max_projection, radius_is_gyration,
                   spot_attributes_list, intensity_table, writes,
                   slice_idx, pair_idx, row_idx, i, error>>

NextBox == MeasureSpotIntensity

SpecBox == InitBox /\ [][NextBox]_vars

\* ------------------------------------------------------------ the tensor
\* an entry of the tensor that was never assigned (NaN); an assigned entry
\* is the one-element sequence of its value
Unset == <<>>

TensorIndex(n_spots, n_ch, n_round) ==
    (0..(n_spots - 1)) \X (0..(n_ch - 1)) \X (0..(n_round - 1))

\* IntensityTable.empty_intensity_table: a tensor of shape
\* (spot count, n_ch, n_round) with every entry unset and the spot table as
\* its per-spot side table
EmptyIntensityTable(features, n_ch, n_round) ==
    [n_spots |-> Len(features), n_ch |-> n_ch, n_round |-> n_round,
     data |-> [t \in TensorIndex(Len(features), n_ch, n_round) |-> Unset],
     features |-> features]

NoWrites(table) == [t \in DOMAIN table.data |-> 0]

\* ----------------------------------------------- measure_spot_intensities
\* zip(range(n_ch), range(n_round)) in place of the product
SliceIndicesZipped(n_ch, n_round) ==
    [k \in 1..(IF n_ch < n_round THEN n_ch ELSE n_round) |-> <<k - 1, k - 1>>]

\* product(range(n_ch), range(n_round)), line 112: channel-major order
SliceIndices(n_ch, n_round) ==
    [k \in 1..(n_ch * n_round) |-> <<(k - 1) \div n_round, (k - 1) % n_round>>]

\* the early return left out
NoSpotsIgnored(table) == FALSE

\* the early return of line 108
NoSpotsDetected(table) == table.n_spots = 0

\* the value measurement_function returns for the box of a spot in the slice
\* (c, r): the reduction of that region of that slice
Measurement(c, r, box) == [ch |-> c, round |-> r, box |-> box]

\* intensity_table[:, c, r] = blob_intensities, line 121
AssignSlice(data, c, r, series) ==
    [t \in DOMAIN data |->
        IF t[2] = c /\ t[3] = r THEN <<Measurement(c, r, series[t[1] + 1])>> ELSE data[t]]

CountSlice(w, c, r) ==
    [t \in DOMAIN w |-> IF t[2] = c /\ t[3] = r THEN w[t] + 1 ELSE w[t]]

\* ----------------------------- concatenate_spot_attributes_to_intensities
MaxOfSet(S) == CHOOSE m \in S : \A n \in S : n <= m

\* the channel extent without the room for index 0
NChWithoutOne(list) == MaxOfSet({list[p].inds.ch : p \in 1..Len(list)})

\* lines 145 and 146
NCh(list) == MaxOfSet({list[p].inds.ch : p \in 1..Len(list)}) + 1
NRound(list) == MaxOfSet({list[p].inds.round : p \in 1..Len(list)}) + 1

\* pd.concat of the tables in input order, line 148
RECURSIVE AllSpots(_)
AllSpots(list) ==
    IF Len(list) = 0 THEN <<>> ELSE list[1].data \o AllSpots(Tail(list))

\* all_spots.drop(['spot_id', 'intensity'], axis=1), line 150
FeaturesCoordinates(table) ==
    [n \in 1..Len(table) |->
        [col \in DOMAIN table[n] \ {"spot_id", "intensity"} |-> table[n][col]]]

\* the position of the next row the nested loops of lines 157-158 visit, at
\* or after row k of pair p; pair Len(list) + 1 when there is none
RECURSIVE NextRow(_, _, _)
NextRow(list, p, k) ==
    IF p > Len(list) THEN <<p, 1>>
    ELSE IF k <= Len(list[p].data) THEN <<p, k>>
    ELSE NextRow(list, p + 1, 1)

\* the running index never advanced
NextSpotIndexStuck(n) == n

\* i += 1, line 160
NextSpotIndex(n) == n + 1

\* intensity_table[i, ch, round] = row['intensity'], line 159
AssignEntry(data, n, inds, value) ==
    [t \in DOMAIN data |->
        IF t = <<n, inds.ch, inds.round>> THEN <<value>> ELSE data[t]]

CountEntry(w, n, inds) ==
    [t \in DOMAIN w |-> IF t = <<n, inds.ch, inds.round>> THEN w[t] + 1 ELSE w[t]]

\* ------------------------------------------------------------ detect_spots
\* the check of the mutually exclusive arguments left out
ConflictIgnored(ref, from_max_projection) == FALSE

\* line 223
ConflictingConfiguration(ref, from_max_projection) ==
    ref # "none" /\ from_max_projection

\* the alignment guard left out
TilesAssumedAligned(stack) == FALSE

\* line 236
TilesNotAligned(stack) == ~stack.tiles_aligned

\* the (round, channel) groups ImageStack.transform applies the function to,
\* one result per group
TransformGroups(n_ch, n_round) ==
    [k \in 1..(n_ch * n_round) |->
        [ch |-> (k - 1) % n_ch, round |-> (k - 1) \div n_ch]]

\* ----------------------------------------------------------------- inputs
\* spots a spot-finding strategy returns: one at the corner of the volume
\* with the largest radius, one near the far edge with a fractional radius
RefSpots ==
    {[z |-> 0, y |-> 0, x |-> 0, radius |-> MaxRadius],
     [z |-> 0, y |-> Denom, x |-> MaxCoord, radius |-> 1]}

\* spot tables of n rows: spot_id is the row's position, unique in the table
RefTables(n) ==
    {[k \in 1..n |-> rows[k] @@ [spot_id |-> k - 1]] : rows \in [1..n -> RefSpots]}

\* the table a strategy returns for one slice on the independent path: n
\* spots at one and the same position, each with its own intensity
SliceTable(n, group) ==
    [k \in 1..n |->
        [z |-> 0, y |-> Denom, x |-> Denom, radius |-> Denom, spot_id |-> k - 1,
         intensity |-> 100 * group + k]]

\* the ways to spread at most MaxSpots spots over n groups or pairs
Spreads(n) ==
    UNION {{d \in [1..m -> 1..n] : \A j \in 1..(m - 1) : d[j] <= d[j + 1]} : m \in 0..MaxSpots}

CountIn(d, g) == Cardinality({j \in DOMAIN d : d[j] = g})

\* ------------------------------------------------------------------- Init
\* detect_spots called on a volume of 2-d tiles (one z plane, the "fake 3d"
\* of its docstring)
Init ==
    /\ entry = "detect_spots"
    /\ pc = "detect_spots"
    /\ \E ch \in 1..MaxCh, round \in 1..MaxRound, y \in Extents, x \in Extents,
          aligned \in BOOLEAN :
           data_stack = Stack(ch, round, 1, y, x, aligned)
    /\ reference_image \in {"none", "explicit"}
    /\ reference_image_from_max_projection \in BOOLEAN
    /\ radius_is_gyration \in BOOLEAN
    /\ spots = NoTable
    /\ blob_intensities = <<>>
    /\ spot_attributes_list = <<>>
    /\ intensity_table = NoTensor
    /\ writes = <<>>
    /\ slice_idx = 0
    /\ pair_idx = 0
    /\ row_idx = 0
    /\ i = 0
    /\ error = "none"
    /\ invoked = {}

\* concatenate_spot_attributes_to_intensities called alone on any sequence
InitConcat ==
    /\ entry = "concatenate"
    /\ pc = "concatenate"
    /\ data_stack = Stack(1, 1, 1, 1, 1, TRUE)
    /\ reference_image = "none"
    /\ reference_image_from_max_projection = FALSE
    /\ radius_is_gyration = FALSE
    /\ spots = NoTable
    /\ blob_intensities = <<>>
    /\ \E m \in 0..MaxPairs :
         \E d \in Spreads(m), chs \in [1..m -> 0..(MaxCh - 1)],
            rounds \in [1..m -> 0..(MaxRound - 1)] :
           spot_attributes_list =
               [p \in 1..m |-> [data |-> SliceTable(CountIn(d, p), p),
                                inds |-> [ch |-> chs[p], round |-> rounds[p]]]]
    /\ intensity_table = NoTensor
    /\ writes = <<>>
    /\ slice_idx = 0
    /\ pair_idx = 0
    /\ row_idx = 0
    /\ i = 0
    /\ error = "none"
    /\ invoked = {}

\* ---------------------------------------------------------------- actions
\* lines 220-226: the mutually exclusive arguments
ValidateConfiguration ==
    /\ pc = "detect_spots"
    /\ IF ConflictingConfiguration(reference_image, reference_image_from_max_projection)
       THEN error' = "configuration_conflict" /\ pc' = "raised"
       ELSE error' = error /\ pc' = "derive_reference"
    /\ UNCHANGED <<entry, data_stack, reference_image,
                   reference_image_from_max_projection, radius_is_gyration, spots,
                   blob_intensities, spot_attributes_list, intensity_table, writes,
                   slice_idx, pair_idx, row_idx, i, invoked>>

\* lines 228-229: the reference image derived by max projection
DeriveReference ==
    /\ pc = "derive_reference"
    /\ IF reference_image_from_max_projection
       THEN reference_image' = "max_proj" /\ invoked' = invoked \cup {"max_proj"}
       ELSE UNCHANGED <<reference_image, invoked>>
    /\ pc' = "dispatch"
    /\ UNCHANGED <<entry, data_stack, reference_image_from_max_projection,
                   radius_is_gyration, spots, blob_intensities, spot_attributes_list,
                   intensity_table, writes, slice_idx, pair_idx, row_idx, i, error>>

\* lines 234-241 and 249: the choice of path and the alignment guard
Dispatch ==
    /\ pc = "dispatch"
    /\ IF reference_image # "none"
       THEN IF TilesNotAligned(data_stack)
            THEN error' = "tiles_not_aligned" /\ pc' = "raised"
            ELSE error' = error /\ pc' = "find_spots"
       ELSE error' = error /\ pc' = "transform"
    /\ UNCHANGED <<entry, data_stack, reference_image,
                   reference_image_from_max_projection, radius_is_gyration, spots,
                   blob_intensities, spot_attributes_list, intensity_table, writes,
                   slice_idx, pair_idx, row_idx, i, invoked>>

\* line 242: the strategy runs once on the reference image
FindSpots ==
    /\ pc = "find_spots"
    /\ \E n \in 0..MaxSpots : \E table \in RefTables(n) : spots' = table
    /\ invoked' = invoked \cup {"spot_finding_method"}
    /\ pc' = "measure_spot_intensities"
    /\ UNCHANGED <<entry, data_stack, reference_image,
                   reference_image_from_max_projection, radius_is_gyration,
                   blob_intensities, spot_attributes_list, intensity_table, writes,
                   slice_idx, pair_idx, row_idx, i, error>>

\* lines 96-109: the empty tensor, returned at once when it has no spot row
AllocateIntensityTable ==
    /\ pc = "measure_spot_intensities"
    /\ LET table == EmptyIntensityTable(spots, data_stack.shape.ch, data_stack.shape.round)
       IN /\ intensity_table' = table
          /\ writes' = NoWrites(table)
          /\ IF NoSpotsDetected(table)
             THEN pc' = "transfer" /\ slice_idx' = slice_idx
             ELSE pc' = "fill" /\ slice_idx' = 1
    /\ invoked' = invoked \cup {"empty_intensity_table"}
    /\ UNCHANGED <<entry, data_stack, reference_image,
                   reference_image_from_max_projection, radius_is_gyration, spots,
                   blob_intensities, spot_attributes_list, pair_idx, row_idx, i, error>>

\* lines 113-121: one iteration of the fill loop, the call of
\* measure_spot_intensity on the shared spot table included
FillSlice ==
    /\ pc = "fill"
    /\ slice_idx <= Len(SliceIndices(intensity_table.n_ch, intensity_table.n_round))
    /\ LET cr == SliceIndices(intensity_table.n_ch, intensity_table.n_round)[slice_idx]
           series == MeasuredBoxes(spots, data_stack.shape, radius_is_gyration)
       IN /\ blob_intensities' = series
          /\ intensity_table' =
               [intensity_table EXCEPT !.data = AssignSlice(@, cr[1], cr[2], series)]
          /\ writes' = CountSlice(writes, cr[1], cr[2])
    /\ spots' = SpotsAfterMeasure(spots, data_stack.shape, radius_is_gyration)
    /\ invoked' = invoked \cup {"get_slice", "measure_spot_intensity", "measurement_function"}
    /\ slice_idx' = slice_idx + 1
    /\ UNCHANGED <<entry, pc, data_stack, reference_image,
                   reference_image_from_max_projection, radius_is_gyration,
                   spot_attributes_list, pair_idx, row_idx, i, error>>

\* line 123: the loop is exhausted
FillReturn ==
    /\ pc = "fill"
    /\ slice_idx > Len(SliceIndices(intensity_table.n_ch, intensity_table.n_round))
    /\ pc' = "transfer"
    /\ UNCHANGED <<entry, data_stack, reference_image,
                   reference_image_from_max_projection, radius_is_gyration, spots,
                   blob_intensities, spot_attributes_list, intensity_table, writes,
                   slice_idx, pair_idx, row_idx, i, error, invoked>>

\* lines 250-255: the strategy runs on every (round, channel) group
Transform ==
    /\ pc = "transform"
    /\ LET groups == TransformGroups(data_stack.shape.ch, data_stack.shape.round) IN
       \E d \in Spreads(Len(groups)) :
           spot_attributes_list' =
               [g \in 1..Len(groups) |->
                   [data |-> SliceTable(CountIn(d, g), g), inds |-> groups[g]]]
    /\ invoked' = invoked \cup {"transform", "spot_finding_method"}
    /\ pc' = "concatenate"
    /\ UNCHANGED <<entry, data_stack, reference_image,
                   reference_image_from_max_projection, radius_is_gyration, spots,
                   blob_intensities, intensity_table, writes, slice_idx, pair_idx,
                   row_idx, i, error>>

\* lines 145-156: the extents, the combined table, the empty tensor, i = 0;
\* max() of an empty sequence raises
ConcatBegin ==
    /\ pc = "concatenate"
    /\ IF Len(spot_attributes_list) = 0
       THEN /\ error' = "empty_sequence"
            /\ pc' = "raised"
            /\ UNCHANGED <<intensity_table, writes, pair_idx, row_idx, i, invoked>>
       ELSE LET table == EmptyIntensityTable(
                             FeaturesCoordinates(AllSpots(spot_attributes_list)),
                             NCh(spot_attributes_list), NRound(spot_attributes_list))
                first == NextRow(spot_attributes_list, 1, 1)
            IN /\ intensity_table' = table
               /\ writes' = NoWrites(table)
               /\ pair_idx' = first[1]
               /\ row_idx' = first[2]
               /\ i' = 0
               /\ invoked' = invoked \cup {"empty_intensity_table"}
               /\ error' = error
               /\ pc' = "concat_loop"
    /\ UNCHANGED <<entry, data_stack, reference_image,
                   reference_image_from_max_projection, radius_is_gyration, spots,
                   blob_intensities, spot_attributes_list, slice_idx>>

\* lines 157-160: one row of one pair
ConcatRow ==
    /\ pc = "concat_loop"
    /\ pair_idx <= Len(spot_attributes_list)
    /\ LET attrs == spot_attributes_list[pair_idx]
           row == attrs.data[row_idx]
           next == NextRow(spot_attributes_list, pair_idx, row_idx + 1)
       IN /\ intensity_table' =
               [intensity_table EXCEPT !.data = AssignEntry(@, i, attrs.inds, row.intensity)]
          /\ writes' = CountEntry(writes, i, attrs.inds)
          /\ pair_idx' = next[1]
          /\ row_idx' = next[2]
    /\ i' = NextSpotIndex(i)
    /\ UNCHANGED <<entry, pc, data_stack, reference_image,
                   reference_image_from_max_projection, radius_is_gyration, spots,
                   blob_intensities, spot_attributes_list, slice_idx, error, invoked>>

\* line 162
ConcatReturn ==
    /\ pc = "concat_loop"
    /\ pair_idx > Len(spot_attributes_list)
    /\ pc' = IF entry = "detect_spots" THEN "transfer" ELSE "concatenated"
    /\ UNCHANGED <<entry, data_stack, reference_image,
                   reference_image_from_max_projection, radius_is_gyration, spots,
                   blob_intensities, spot_attributes_list, intensity_table, writes,
                   slice_idx, pair_idx, row_idx, i, error, invoked>>

\* lines 258-261: the hand-off to the coordinate transfer, then the return
TransferCoords ==
    /\ pc = "transfer"
    /\ invoked' = invoked \cup {"transfer_physical_coords"}
    /\ pc' = "returned"
    /\ UNCHANGED <<entry, data_stack, reference_image,
                   reference_image_from_max_projection, radius_is_gyration, spots,
                   blob_intensities, spot_attributes_list, intensity_table, writes,
                   slice_idx, pair_idx, row_idx, i, error>>

Next ==
    \/ ValidateConfiguration
    \/ DeriveReference
    \/ Dispatch
    \/ FindSpots
    \/ AllocateIntensityTable
    \/ FillSlice
    \/ FillReturn
    \/ Transform
    \/ ConcatBegin
    \/ ConcatRow
    \/ ConcatReturn
    \/ TransferCoords

Spec == Init /\ [][Next]_vars

NextConcat == ConcatBegin \/ ConcatRow \/ ConcatReturn

SpecConcat == InitConcat /\ [][NextConcat]_vars

\* =========================================================================
\* Properties of measure_spot_intensity (specification SpecBox)
\* =========================================================================
\* floor and ceiling of a float, stated from their definitions
FloorOf(v) == CHOOSE n \in 0..(v + 1) : ToFloat(n) <= v /\ v < ToFloat(n + 1)
CeilOf(v) == CHOOSE n \in 0..(v + 1) : ToFloat(n) >= v /\ v > ToFloat(n - 1)

Measured == pc = "measured"
Rows == 1..Len(spots)
MinOf(box, a) == box[a \o "_min"]
MaxOf(box, a) == box[a \o "_max"]
WidthOf(box, a) == MaxOf(box, a) - MinOf(box, a)
ExtentOf(a) == data_stack.shape[a]
AxisNames == {"z", "y", "x"}

\* the half-width the claim names for a radius under the policy in force
NamedHalfWidth(r) == IF radius_is_gyration THEN CeilOf(r) + 1 ELSE FloorOf(r)

\* the box of a row is not cut by the volume bounds on axis a
NotCut(row, a) ==
    /\ row[a] - ToFloat(NamedHalfWidth(row.radius) - 1) >= 0
    /\ row[a] + ToFloat(NamedHalfWidth(row.radius)) <= ToFloat(ExtentOf(a))

\* C2 as stated: an uncut box is 2*floor(r) wide under the default policy and
\* 2*(ceil(r)+1) wide under the gyration policy
C2_WidthAsStated ==
    Measured => \A n \in Rows : \A a \in AxisNames :
        NotCut(spots[n], a) =>
            WidthOf(blob_intensities[n], a) = 2 * NamedHalfWidth(spots[n].radius)

\* C2 amended: an uncut box is 2*floor(r) - 1 wide under the default policy and
\* 2*(ceil(r)+1) - 1 wide under the gyration policy, and a cut box is never
\* wider than that
C2_Width ==
    Measured => \A n \in Rows : \A a \in AxisNames :
        /\ NotCut(spots[n], a) =>
               WidthOf(blob_intensities[n], a) = 2 * NamedHalfWidth(spots[n].radius) - 1
        /\ WidthOf(blob_intensities[n], a) <= 2 * NamedHalfWidth(spots[n].radius) - 1

\* an uncut box of a fractional radius has been measured under the gyration
\* policy
C2_Witness ==
    /\ Measured
    /\ \E n \in Rows : \E a \in AxisNames :
        /\ NotCut(spots[n], a)
        /\ FloorOf(spots[n].radius) # CeilOf(spots[n].radius)
        /\ WidthOf(blob_intensities[n], a) > 0
        /\ radius_is_gyration

\* C7 as stated: each of the six box integers lies within 0..axis_extent
C7_BoxWithinExtentAsStated ==
    Measured => \A n \in Rows : \A a \in AxisNames :
        /\ MinOf(blob_intensities[n], a) \in 0..ExtentOf(a)
        /\ MaxOf(blob_intensities[n], a) \in 0..ExtentOf(a)

\* C7 amended: no box integer is negative, each max lies within 0..axis_extent,
\* and a min lies within 0..axis_extent whenever the centre lies below the
\* axis extent
C7_BoxWithinExtent ==
    Measured => \A n \in Rows : \A a \in AxisNames :
        /\ MinOf(blob_intensities[n], a) >= 0
        /\ MaxOf(blob_intensities[n], a) \in 0..ExtentOf(a)
        /\ spots[n][a] < ToFloat(ExtentOf(a)) =>
               MinOf(blob_intensities[n], a) \in 0..ExtentOf(a)

\* a spot centred at coordinate 0 whose box is clipped at the lower bound, and
\* one centred beyond the volume edge, have been measured
C7_Witness ==
    /\ Measured
    /\ \E n \in Rows :
        /\ spots[n].x = 0
        /\ spots[n].x - ToFloat(NamedHalfWidth(spots[n].radius) - 1) < 0
        /\ spots[n].y > ToFloat(ExtentOf("y"))

\* C8: on every axis the box derived under the gyration policy contains the
\* box derived under the default policy for the same centre, radius and extent
C8_GyrationContainsDefault ==
    Measured => \A n \in Rows : \A a \in AxisNames :
        LET other == MeasuredBoxes(spots, data_stack.shape, ~radius_is_gyration)[n]
            gyr == IF radius_is_gyration THEN blob_intensities[n] ELSE other
            def == IF radius_is_gyration THEN other ELSE blob_intensities[n]
        IN /\ MinOf(gyr, a) <= MinOf(def, a)
           /\ MaxOf(gyr, a) >= MaxOf(def, a)

\* a gyration box strictly larger than the default box has been measured
C8_Witness ==
    /\ Measured
    /\ radius_is_gyration
    /\ \E n \in Rows :
        LET def == MeasuredBoxes(spots, data_stack.shape, FALSE)[n] IN
        /\ WidthOf(def, "x") > 0
        /\ WidthOf(blob_intensities[n], "x") > WidthOf(def, "x")

\* C10: measure_spot_intensity leaves the caller's spot table as it was, with
\* no bounding-box column in it
C10_TableUnchanged ==
    [][pc = "measure_spot_intensity" => spots' = spots]_vars

\* =========================================================================
\* Properties of detect_spots and measure_spot_intensities (specification Spec)
\* =========================================================================
Data == intensity_table.data
Filled(n) == {t \in DOMAIN Data : t[1] = n /\ Data[t] # Unset}
OnReferencePath == reference_image # "none"
AfterAssembly == pc \in {"transfer", "returned"}
ConflictingArguments == reference_image = "explicit" /\ reference_image_from_max_projection

\* C1: on the reference path with a non-empty spot table the tensor has one
\* row per spot; no entry is written twice while the loop runs, and when it
\* has finished every (channel, round) pair of every spot was written exactly
\* once, so each spot has n_channel * n_round filled entries and none unset
C1_EverySliceFilledOnce ==
    /\ pc = "fill" =>
         /\ intensity_table.n_spots = Len(spots)
         /\ \A t \in DOMAIN Data : writes[t] <= 1
    /\ (AfterAssembly /\ OnReferencePath /\ Len(spots) > 0) =>
         /\ intensity_table.n_spots = Len(spots)
         /\ DOMAIN Data =
              TensorIndex(Len(spots), data_stack.shape.ch, data_stack.shape.round)
         /\ \A t \in DOMAIN Data : writes[t] = 1 /\ Data[t] # Unset
         /\ \A n \in 0..(Len(spots) - 1) :
              Cardinality(Filled(n)) = data_stack.shape.ch * data_stack.shape.round

\* a table of several spots has been measured over several channels and rounds
C1_Witness ==
    /\ pc = "returned"
    /\ OnReferencePath
    /\ Len(spots) >= 2
    /\ data_stack.shape.ch >= 2
    /\ data_stack.shape.round >= 2
    /\ Cardinality(Filled(1)) = 4

\* C4: with both an explicit reference image and the max-projection flag the
\* call ends in the configuration-conflict error and nothing was computed:
\* no max projection, no spot finding, no tensor, no coordinate transfer
C4_ConflictBeforeAnyWork ==
    (ConflictingArguments /\ pc # "detect_spots") =>
        /\ pc = "raised"
        /\ error = "configuration_conflict"
        /\ invoked = {}
        /\ intensity_table = NoTensor
        /\ spots = NoTable

C4_Witness ==
    /\ ConflictingArguments
    /\ pc = "raised"
    /\ error = "configuration_conflict"

\* C5: on the reference path a volume whose tiles are not aligned ends in the
\* alignment error before the strategy ran, before any slice was measured and
\* with no tensor made or handed to the coordinate transfer; without a
\* reference image no error is raised at all
C5_AlignmentGuard ==
    /\ (OnReferencePath /\ ~ConflictingArguments /\ ~data_stack.tiles_aligned
          /\ pc \notin {"detect_spots", "derive_reference", "dispatch"}) =>
         /\ pc = "raised"
         /\ error = "tiles_not_aligned"
         /\ invoked \subseteq {"max_proj"}
         /\ intensity_table = NoTensor
         /\ spots = NoTable
    /\ error = "tiles_not_aligned" => OnReferencePath /\ ~data_stack.tiles_aligned
    /\ ~OnReferencePath => error = "none"

\* the guard has fired on a reference image derived by max projection
C5_Witness ==
    /\ pc = "raised"
    /\ error = "tiles_not_aligned"
    /\ reference_image = "max_proj"
    /\ "max_proj" \in invoked

\* C6: a spot table of zero rows gives a tensor of zero spot rows with the
\* volume's channel and round extents, no error, no slice read and no
\* measurement made
C6_ZeroSpots ==
    (AfterAssembly /\ OnReferencePath /\ Len(spots) = 0) =>
        /\ error = "none"
        /\ intensity_table.n_spots = 0
        /\ intensity_table.n_ch = data_stack.shape.ch
        /\ intensity_table.n_round = data_stack.shape.round
        /\ DOMAIN Data = {}
        /\ invoked \cap {"get_slice", "measure_spot_intensity", "measurement_function"} = {}

C6_Witness ==
    /\ pc = "returned"
    /\ OnReferencePath
    /\ Len(spots) = 0
    /\ "spot_finding_method" \in invoked
    /\ data_stack.shape.ch >= 2

\* =========================================================================
\* Properties of concatenate_spot_attributes_to_intensities
\* (specification SpecConcat)
\* =========================================================================
Pairs == 1..Len(spot_attributes_list)
Assembling == pc \in {"concat_loop", "concatenated"}

RECURSIVE TotalRows(_)
TotalRows(list) ==
    IF Len(list) = 0 THEN 0 ELSE Len(list[1].data) + TotalRows(Tail(list))

\* the number of rows the loops visit before row k of pair p
RowsBefore(p, k) == TotalRows(SubSeq(spot_attributes_list, 1, p - 1)) + k - 1

\* C3: the channel extent is the largest observed channel index plus one, the
\* round extent the largest observed round index plus one, and the tensor has
\* as many spot rows as the per-slice tables have rows in total
C3_ExtentsAndRowCount ==
    Assembling =>
        /\ \A p \in Pairs : spot_attributes_list[p].inds.ch <= intensity_table.n_ch - 1
        /\ \E p \in Pairs : spot_attributes_list[p].inds.ch = intensity_table.n_ch - 1
        /\ \A p \in Pairs : spot_attributes_list[p].inds.round <= intensity_table.n_round - 1
        /\ \E p \in Pairs : spot_attributes_list[p].inds.round = intensity_table.n_round - 1
        /\ intensity_table.n_spots = TotalRows(spot_attributes_list)
        /\ Len(intensity_table.features) = TotalRows(spot_attributes_list)

\* two non-empty tables whose spots coincide were concatenated, with a sparse
\* set of indices
C3_Witness ==
    /\ pc = "concatenated"
    /\ Len(spot_attributes_list) = 2
    /\ \A p \in Pairs : Len(spot_attributes_list[p].data) >= 1
    /\ \A p \in Pairs : spot_attributes_list[p].inds = [ch |-> 1, round |-> 1]
    /\ intensity_table.features[1] = intensity_table.features[2]
    /\ intensity_table.n_spots = 2

\* C9: the running index equals the number of rows visited so far; the k-th
\* row overall has its intensity at (k, its pair's channel, its pair's round)
\* and no other entry; rows not yet visited have no entry
C9_PositionalWrites ==
    /\ pc = "concat_loop" =>
         /\ i = RowsBefore(pair_idx, row_idx)
         /\ \A t \in DOMAIN Data : writes[t] <= 1
         /\ Cardinality({t \in DOMAIN Data : writes[t] = 1}) = i
    /\ Assembling =>
         \A p \in Pairs : \A k \in 1..Len(spot_attributes_list[p].data) :
            LET n == RowsBefore(p, k)
                inds == spot_attributes_list[p].inds
            IN IF n < i
               THEN /\ Data[<<n, inds.ch, inds.round>>] =
                         <<spot_attributes_list[p].data[k].intensity>>
                    /\ Filled(n) = {<<n, inds.ch, inds.round>>}
               ELSE Filled(n) = {}
    /\ pc = "concatenated" => i = TotalRows(spot_attributes_list)

\* rows of two pairs with different indices were written
C9_Witness ==
    /\ pc = "concatenated"
    /\ i >= 2
    /\ Len(spot_attributes_list) = 2
    /\ spot_attributes_list[1].inds # spot_attributes_list[2].inds
    /\ \A p \in Pairs : Len(spot_attributes_list[p].data) >= 1

====
